---- MODULE Spec2Model ----
(***************************************************************************)
(* BrainLink backend: the HTTP handlers of src/src/index.ts over the three *)
(* collections of src/src/db.ts, behind the Identity Verifier              *)
(* (userMiddleware, src/src/db.ts lines 89-130).                           *)
(*                                                                         *)
(* The document store is modelled with its per-operation atomicity: one    *)
(* create / find / findOne / deleteOne is one step.  A handler with a      *)
(* single store operation is one action; a handler that awaits several     *)
(* store operations (share enable, share resolve) is one action per await, *)
(* with the request parked in `inflight` between them.  Store operations   *)
(* are assumed to succeed (no connection failure) in these specifications. *)
(***************************************************************************)
EXTENDS Integers, Sequences, FiniteSets, Bags, TLC

VARIABLES
    UserModel,      \* set of User documents      [_id, username, password]
    ContentModel,   \* set of Content documents   [_id, link, type, title, userId, tags]
    LinkModel,      \* bag of Link documents      [hash, userId]
    userSeq,        \* number of User documents ever created (ObjectId source)
    contentSeq,     \* number of Content documents ever created (ObjectId source)
    tokens,         \* history: token strings returned by signin so far
    signedUp,       \* history: <<username, password>> of every successful signup
    active,         \* history: <<userId, hash>> returned by the user's share-enable
                    \*   requests since the user's last completed disable
    retired,        \* history: <<userId, hash>> returned to the user before the
                    \*   user's last completed disable, no enable of the user since
    inflight,       \* bag of requests parked at an await between two store operations
    req,            \* the header map of the request received in the last step
                    \*   (Continued when the last step resumed a parked request)
    resp            \* the last response sent, with the request it answers

vars == <<UserModel, ContentModel, LinkModel, userSeq, contentSeq, tokens,
          signedUp, active, retired, inflight, req, resp>>

\* ---------------------------------------------------------------- bounds

\* Content documents created in one behaviour.
MaxContent == 2
\* Link documents in the store at once.
MaxLinks == 2
\* Share-enable requests parked between findOne and create at once.
MaxEnables == 2
\* Share-resolve requests parked between two of their store reads at once.
MaxResolves == 1

\* ------------------------------------------------------- program constants

JWT_PASSWORD == "!123123"
ObjectIdLen == 24
HashLen == 10
BearerLen == 7
UsernameMin == 3
PasswordMin == 6

\* ------------------------------------------------------------ ObjectIds

HexChars == {"0","1","2","3","4","5","6","7","8","9",
             "a","b","c","d","e","f","A","B","C","D","E","F"}

HexDigit(n) == SubSeq("0123456789abcdef", n + 1, n + 1)

\* A fresh ObjectId of the store: 24 hex characters, distinct per collection
\* and per creation.
UserObjectId(n) == "aaaaaaaaaaaaaaaaaaaaaaa" \o HexDigit(n)
ContentObjectId(n) == "ccccccccccccccccccccccc" \o HexDigit(n)

\* contentId.match(/^[0-9a-fA-F]{24}$/)
IsObjectIdFormat(s) ==
    /\ Len(s) = ObjectIdLen
    /\ \A i \in 1..Len(s) : SubSeq(s, i, i) \in HexChars

\* ------------------------------------------------- strings (JavaScript)

\* String.prototype.startsWith
startsWith(s, prefix) ==
    /\ Len(s) >= Len(prefix)
    /\ SubSeq(s, 1, Len(prefix)) = prefix

\* String.prototype.substring(n): the string from index n (0-based) on
substring(s, n) == SubSeq(s, n + 1, Len(s))

\* ------------------------------------------------------- request inputs

\* Usernames and passwords that pass signupSchema.
Usernames == {"alice", "bob"}
Passwords == {"secret1", "secret2"}

\* ---------------------------------------------------- jsonwebtoken

\* The keys a token may be signed with: the server's and an attacker's.
Keys == {JWT_PASSWORD, "attacker-key"}

\* Every ObjectId a User document can get.
UserIds == {UserObjectId(n) : n \in 1..Cardinality(Usernames)}

\* Decoded payloads: the claim {id: <ObjectId>} that signin signs, a bare
\* string, and the JSON literal null.
ObjectPayload(id) == [kind |-> "object", id |-> id]
StringPayload == [kind |-> "string", id |-> "just-a-string"]
NullPayload == [kind |-> "null", id |-> "null"]
Payloads == {ObjectPayload(i) : i \in UserIds} \cup {StringPayload, NullPayload}

\* jwt.sign(payload, key): the compact serialisation; the signature part can
\* be produced, and is accepted, only with the same key.
sign(payload, key) == "jwt." \o payload.kind \o ":" \o payload.id \o "." \o key

\* Variant: decodes the payload without checking whose key signed it.
verifyUnsigned(token, key) ==
    IF \E p \in Payloads, k \in Keys : token = sign(p, k)
    THEN [throws |-> FALSE,
          decoded |-> CHOOSE p \in Payloads : \E k \in Keys : token = sign(p, k)]
    ELSE [throws |-> TRUE, decoded |-> NullPayload]

\* jwt.verify(token, key): throws on a string that is no JWT and on a JWT whose
\* signature was not made with key; otherwise returns the decoded payload.
verify(token, key) ==
    IF \E p \in Payloads : token = sign(p, key)
    THEN [throws |-> FALSE,
          decoded |-> CHOOSE p \in Payloads : token = sign(p, key)]
    ELSE [throws |-> TRUE, decoded |-> NullPayload]

\* ------------------------------------------- userMiddleware (Identity Verifier)

NoUser == "undefined"

Reject(status, message) ==
    [next |-> FALSE, status |-> status, message |-> message, userId |-> NoUser]

\* JavaScript truthiness of a decoded payload
Truthy(decoded) == decoded.kind # "null"

\* Variant: no typeof decoded === "string" check before next().
userMiddlewareNoStringCheck(headers) ==
    IF ~("authorization" \in DOMAIN headers) \/ headers["authorization"] = ""
    THEN Reject(401, "Authorization header is required")
    ELSE LET header == headers["authorization"]
             token == IF startsWith(header, "Bearer ")
                      THEN substring(header, BearerLen)
                      ELSE header
             v == verify(token, JWT_PASSWORD)
         IN  IF v.throws
             THEN Reject(401, "Invalid or expired token")
             ELSE IF Truthy(v.decoded)
                  THEN [next |-> TRUE, status |-> 200, message |-> "",
                        userId |-> v.decoded.id]
                  ELSE Reject(403, "You are not logged in")

\* headers is the request's header map: a function whose domain holds
\* "authorization" when the header was sent.
userMiddleware(headers) ==
    IF ~("authorization" \in DOMAIN headers) \/ headers["authorization"] = ""
    THEN Reject(401, "Authorization header is required")
    ELSE LET header == headers["authorization"]
             token == IF startsWith(header, "Bearer ")
                      THEN substring(header, BearerLen)
                      ELSE header
             v == verify(token, JWT_PASSWORD)
         IN  IF v.throws
             THEN Reject(401, "Invalid or expired token")
             ELSE IF Truthy(v.decoded)
                  THEN IF v.decoded.kind = "string"
                       THEN Reject(403, "Invalid token format")
                       ELSE [next |-> TRUE, status |-> 200, message |-> "",
                             userId |-> v.decoded.id]
                  ELSE Reject(403, "You are not logged in")

\* The header maps a request can carry: none, every token signin has
\* returned (raw and Bearer-prefixed), and credentials that are not tokens of
\* this server: an empty value, junk, a token of this server under another
\* scheme, a token for a stored id signed with another key, and signed
\* payloads that are no claim object.
NoHeaders == << >>
Auth(value) == [authorization |-> value]
\* The value of req after a step that received no request.
Continued == [continued |-> "await"]
MalformedCredentials ==
    {"", "Bearer garbage",
     "Basic " \o sign(ObjectPayload(UserObjectId(1)), JWT_PASSWORD)}
ForgedCredentials == {"Bearer " \o sign(ObjectPayload(UserObjectId(1)), "attacker-key")}
StringCredentials == {sign(StringPayload, JWT_PASSWORD)}
NullCredentials == {"Bearer " \o sign(NullPayload, JWT_PASSWORD)}
BadCredentials ==
    MalformedCredentials \cup ForgedCredentials \cup StringCredentials \cup NullCredentials
IssuedCredentials == tokens \cup {"Bearer " \o t : t \in tokens}
HeaderMaps == {NoHeaders} \cup {Auth(v) : v \in BadCredentials \cup IssuedCredentials}

\* Every header map a request of the model can carry, and the middleware's
\* outcome for each (userMiddleware reads nothing but the header map and the
\* secret, so the outcomes are computed once).
AllTokens == {sign(ObjectPayload(i), JWT_PASSWORD) : i \in UserIds}
AllHeaderMaps ==
    {NoHeaders} \cup {Auth(v) : v \in BadCredentials \cup AllTokens
                                     \cup {"Bearer " \o t : t \in AllTokens}}
Authorize == [headers \in AllHeaderMaps |-> userMiddleware(headers)]
\* What a client of the documented interface sends: nothing, or a token it
\* got from signin, raw or Bearer-prefixed.
ClientHeaderMaps == {NoHeaders} \cup {Auth(t) : t \in tokens}
                    \cup {Auth("Bearer " \o t) : t \in tokens}
BearerHeaderMaps == {NoHeaders} \cup {Auth("Bearer " \o t) : t \in tokens}

\* ---------------------------------------------------------------- bcrypt

Salts == {"saltA"}

\* bcrypt.hash(password, 10) with the salt it drew
bcryptHash(password, salt) == "$2b$10$" \o salt \o "$" \o password

\* Variant: accepts any password for a stored hash.
bcryptCompareAny(password, hash) == hash # ""

\* bcrypt.compare(password, hash)
bcryptCompare(password, hash) == \E salt \in Salts : hash = bcryptHash(password, salt)

\* ------------------------------------------------------------- responses

NoContent == {}

Response(op, userId, arg, status, message, data, content) ==
    [op |-> op, userId |-> userId, arg |-> arg, status |-> status,
     message |-> message, data |-> data, content |-> content]

\* The response the middleware itself sends when it does not call next():
\* the route's handler never runs.
Rejected(op, auth) ==
    Response("userMiddleware", NoUser, "", auth.status, auth.message, "", NoContent)

\* --------------------------------------------------------- POST /signup

\* signupSchema
signupSchema(username, password) ==
    /\ Len(username) >= UsernameMin /\ Len(username) <= 50
    /\ Len(password) >= PasswordMin /\ Len(password) <= 100

\* Variant: no unique index on username.
DuplicateKeyNever(username) == FALSE

\* The unique index on User.username: a create with a username already
\* stored fails with error code 11000.
DuplicateKey(username) == \E u \in UserModel : u.username = username

Signup(username, password, salt) ==
    /\ IF ~signupSchema(username, password)
       THEN /\ resp' = Response("signup", NoUser, username, 400, "Validation error", "", NoContent)
            /\ UNCHANGED <<UserModel, userSeq, signedUp>>
       ELSE IF DuplicateKey(username)
       THEN /\ resp' = Response("signup", NoUser, username, 409, "Username already exists", "", NoContent)
            /\ UNCHANGED <<UserModel, userSeq, signedUp>>
       ELSE /\ UserModel' = UserModel \cup
                  {[_id |-> UserObjectId(userSeq + 1), username |-> username,
                    password |-> bcryptHash(password, salt)]}
            /\ userSeq' = userSeq + 1
            /\ signedUp' = signedUp \cup
                  {[username |-> username, password |-> password,
                    _id |-> UserObjectId(userSeq + 1)]}
            /\ resp' = Response("signup", NoUser, username, 200, "User signed up successfully", "", NoContent)
    /\ req' = NoHeaders
    /\ UNCHANGED <<ContentModel, LinkModel, contentSeq, tokens, inflight>>

\* --------------------------------------------------------- POST /signin

\* Variant: signin demands a longer password than signup does.
signinSchemaLonger(username, password) == Len(username) >= 1 /\ Len(password) >= 8

\* signinSchema
signinSchema(username, password) == Len(username) >= 1 /\ Len(password) >= 1

\* UserModel.findOne({username}): the matching documents (at most one)
FindUserByUsername(username) == {u \in UserModel : u.username = username}

Signin(username, password) ==
    /\ IF ~signinSchema(username, password)
       THEN /\ resp' = Response("signin", NoUser, username, 400, "Validation error", "", NoContent)
            /\ UNCHANGED tokens
       ELSE IF FindUserByUsername(username) = {}
       THEN /\ resp' = Response("signin", NoUser, username, 403, "Invalid credentials", "", NoContent)
            /\ UNCHANGED tokens
       ELSE \E existingUser \in FindUserByUsername(username) :
              IF bcryptCompare(password, existingUser.password)
              THEN LET token == sign(ObjectPayload(existingUser._id), JWT_PASSWORD)
                   IN  /\ tokens' = tokens \cup {token}
                       /\ resp' = Response("signin", NoUser, username, 200, "", token, NoContent)
              ELSE /\ resp' = Response("signin", NoUser, username, 403, "Invalid credentials", "", NoContent)
                   /\ UNCHANGED tokens
    /\ req' = NoHeaders
    /\ UNCHANGED <<UserModel, ContentModel, LinkModel, userSeq, contentSeq,
                   signedUp, inflight>>

\* --------------------------------------------------- POST /api/v1/content

ContentTypes == {"youtube", "twitter", "blog", "aichat"}

\* z.string().url()
IsUrl(s) == startsWith(s, "https://") \/ startsWith(s, "http://")

\* contentSchema
contentSchema(body) ==
    /\ IsUrl(body.link)
    /\ body.type \in ContentTypes
    /\ Len(body.title) >= 1 /\ Len(body.title) <= 200

\* Request bodies of content create: one that passes contentSchema and one
\* failing each of its fields.
ContentBodies ==
    {[link |-> "https://x.com/1", type |-> "twitter", title |-> "t"],
     [link |-> "x.com/1", type |-> "twitter", title |-> "t"],
     [link |-> "https://x.com/1", type |-> "video", title |-> "t"],
     [link |-> "https://x.com/1", type |-> "twitter", title |-> ""]}

\* Variant: the document is stored without the identity the middleware bound.
NewContentNoOwner(body, userId, n) ==
    [_id |-> ContentObjectId(n), link |-> body.link, type |-> body.type,
     title |-> body.title, userId |-> NoUser, tags |-> {}]

\* The document ContentModel.create stores for a body and the identity the
\* middleware bound.
NewContent(body, userId, n) ==
    [_id |-> ContentObjectId(n), link |-> body.link, type |-> body.type,
     title |-> body.title, userId |-> userId, tags |-> {}]

AddContent(headers, body) ==
    LET auth == Authorize[headers] IN
    /\ IF ~auth.next
       THEN /\ resp' = Rejected("addContent", auth)
            /\ UNCHANGED <<ContentModel, contentSeq>>
       ELSE IF ~contentSchema(body)
       THEN /\ resp' = Response("addContent", auth.userId, body.link, 400, "Validation error", "", NoContent)
            /\ UNCHANGED <<ContentModel, contentSeq>>
       ELSE /\ contentSeq < MaxContent
            /\ ContentModel' = ContentModel \cup {NewContent(body, auth.userId, contentSeq + 1)}
            /\ contentSeq' = contentSeq + 1
            /\ resp' = Response("addContent", auth.userId, ContentObjectId(contentSeq + 1), 200,
                                "Content added successfully", "", NoContent)
    /\ req' = headers
    /\ UNCHANGED <<UserModel, LinkModel, userSeq, tokens, signedUp, inflight>>

\* ---------------------------------------------------- GET /api/v1/content

\* Variant: the find without the owner filter.
FindContentAny(userId) == ContentModel

\* ContentModel.find({userId})
FindContentByUser(userId) == {c \in ContentModel : c.userId = userId}

\* .populate("userId", "username"): the owner reference replaced by the
\* referenced User's _id and username (null when no such User exists)
Populate(c) ==
    [c EXCEPT !.userId =
        IF \E u \in UserModel : u._id = c.userId
        THEN LET u == CHOOSE u \in UserModel : u._id = c.userId
             IN  [_id |-> u._id, username |-> u.username]
        ELSE [_id |-> "null", username |-> "null"]]

ListContent(headers) ==
    LET auth == Authorize[headers] IN
    /\ IF ~auth.next
       THEN resp' = Rejected("listContent", auth)
       ELSE resp' = Response("listContent", auth.userId, "", 200, "", "",
                             {Populate(c) : c \in FindContentByUser(auth.userId)})
    /\ req' = headers
    /\ UNCHANGED <<UserModel, ContentModel, LinkModel, userSeq, contentSeq, tokens,
                   signedUp, inflight>>

\* ------------------------------------------------- DELETE /api/v1/content

\* Variant: the filter without the owner.
DeleteFilterAnyOwner(c, contentId, userId) == c._id = contentId

\* The filter of ContentModel.deleteOne({_id: contentId, userId: req.userId})
DeleteFilter(c, contentId, userId) == c._id = contentId /\ c.userId = userId

\* Variant: a deleteOne that removes nothing.
DeleteOneContentKeep(contentId, userId) == {ContentModel}

\* deleteOne: the store without one document matching the filter, or the
\* store as it is when none matches; deletedCount is the difference.
DeleteOneContent(contentId, userId) ==
    IF \E c \in ContentModel : DeleteFilter(c, contentId, userId)
    THEN {ContentModel \ {c} : c \in {d \in ContentModel : DeleteFilter(d, contentId, userId)}}
    ELSE {ContentModel}

\* The tail both delete routes share, from the ObjectId format check on.
DeleteTail(op, userId, contentId) ==
    IF ~IsObjectIdFormat(contentId)
    THEN /\ resp' = Response(op, userId, contentId, 400, "Invalid content ID format", "", NoContent)
         /\ UNCHANGED ContentModel
    ELSE \E after \in DeleteOneContent(contentId, userId) :
            /\ ContentModel' = after
            /\ IF Cardinality(ContentModel) - Cardinality(after) = 0
               THEN resp' = Response(op, userId, contentId, 404,
                                     "Content not found or not authorized to delete", "", NoContent)
               ELSE resp' = Response(op, userId, contentId, 200,
                                     "Content deleted successfully", "", NoContent)

\* Ids a client may put in a delete request: every id the store can hand
\* out, a well-formed id the store never hands out, and a malformed one.
ContentIdInputs ==
    {ContentObjectId(n) : n \in 0..MaxContent} \cup {"not-an-object-id"}

\* DELETE /api/v1/content/:contentId
DeleteContentParam(headers, contentId) ==
    LET auth == Authorize[headers] IN
    /\ IF ~auth.next
       THEN /\ resp' = Rejected("deleteContentParam", auth)
            /\ UNCHANGED ContentModel
       ELSE DeleteTail("deleteContentParam", auth.userId, contentId)
    /\ req' = headers
    /\ UNCHANGED <<UserModel, LinkModel, userSeq, contentSeq, tokens, signedUp,
                   inflight>>

\* deleteContentSchema
deleteContentSchema(body) == Len(body.contentId) >= 1

\* DELETE /api/v1/content with {contentId} in the body
DeleteContentBody(headers, body) ==
    LET auth == Authorize[headers] IN
    /\ IF ~auth.next
       THEN /\ resp' = Rejected("deleteContentBody", auth)
            /\ UNCHANGED ContentModel
       ELSE IF ~deleteContentSchema(body)
       THEN /\ resp' = Response("deleteContentBody", auth.userId, body.contentId, 400,
                                "Validation error", "", NoContent)
            /\ UNCHANGED ContentModel
       ELSE DeleteTail("deleteContentBody", auth.userId, body.contentId)
    /\ req' = headers
    /\ UNCHANGED <<UserModel, LinkModel, userSeq, contentSeq, tokens, signedUp,
                   inflight>>

\* ------------------------------------------------------ random (utils)

CodeChars == {"a", "Z"}

RECURSIVE Repeat(_, _)
Repeat(ch, n) == IF n = 0 THEN "" ELSE ch \o Repeat(ch, n - 1)

\* random(len): the strings of len alphanumeric characters it can return
\* (here: those made of one repeated character)
random(len) == {Repeat(ch, len) : ch \in CodeChars}

\* --------------------------------------------- POST /api/v1/brain/share

\* The JSON literal sent as the body's share field.
ShareBodies == {"true", "false", "\"yes\""}

\* shareSchema: share is a boolean
shareSchema(body) == body \in {"true", "false"}

\* Variant: the lookup that never finds a link.
FindLinkNever(userId) == {}

\* LinkModel.findOne({userId}): the documents it can return
FindLinkByUser(userId) == {l \in BagToSet(LinkModel) : l.userId = userId}

\* Variant: the filter without the owner.
DeleteOneLinkAnyUser(userId) ==
    IF BagToSet(LinkModel) = {}
    THEN {LinkModel}
    ELSE {LinkModel (-) SetToBag({l}) : l \in BagToSet(LinkModel)}

\* LinkModel.deleteOne({userId}): the stores it can leave
DeleteOneLink(userId) ==
    IF FindLinkByUser(userId) = {}
    THEN {LinkModel}
    ELSE {LinkModel (-) SetToBag({l}) : l \in FindLinkByUser(userId)}

Parked(kind, userId, hash, content) ==
    [kind |-> kind, userId |-> userId, hash |-> hash, content |-> content]

\* Number of parked requests of the given kinds
ParkedCount(kinds) ==
    BagCardinality([r \in {q \in BagToSet(inflight) : q.kind \in kinds} |-> inflight[r]])

\* Requests of a kind parked for one user.
ParkedFor(userId, kind) == {r \in BagToSet(inflight) : r.kind = kind /\ r.userId = userId}

\* The handler up to and including its first store operation: the disable
\* branch whole, the enable branch up to the await of LinkModel.findOne.
ShareToggle(headers, body) ==
    LET auth == Authorize[headers] IN
    /\ IF ~auth.next
       THEN /\ resp' = Rejected("share", auth)
            /\ UNCHANGED <<LinkModel, inflight>>
       ELSE IF ~shareSchema(body)
       THEN /\ resp' = Response("share", auth.userId, body, 400, "Validation error", "", NoContent)
            /\ UNCHANGED <<LinkModel, inflight>>
       ELSE IF body = "true"
       THEN IF FindLinkByUser(auth.userId) # {}
            THEN \E existingLink \in FindLinkByUser(auth.userId) :
                    /\ resp' = Response("share", auth.userId, body, 200, "", existingLink.hash, NoContent)
                    /\ UNCHANGED <<LinkModel, inflight>>
            ELSE /\ ParkedCount({"share.create"}) < MaxEnables
                 /\ inflight' = inflight (+) SetToBag({Parked("share.create", auth.userId, "", NoContent)})
                 /\ UNCHANGED <<LinkModel, resp>>
       ELSE \E after \in DeleteOneLink(auth.userId) :
              /\ LinkModel' = after
              /\ resp' = Response("share", auth.userId, body, 200, "Removed link", "", NoContent)
              /\ UNCHANGED inflight
    /\ req' = headers
    /\ UNCHANGED <<UserModel, ContentModel, userSeq, contentSeq, tokens, signedUp>>

\* Variant: the create is an insert-if-absent on the owner.
ShareCreateIfAbsent(r, hash) ==
    /\ BagIn(r, inflight) /\ r.kind = "share.create"
    /\ hash \in random(HashLen)
    /\ BagCardinality(LinkModel) < MaxLinks
    /\ IF FindLinkByUser(r.userId) # {}
       THEN \E existingLink \in FindLinkByUser(r.userId) :
               /\ resp' = Response("share", r.userId, "true", 200, "", existingLink.hash, NoContent)
               /\ UNCHANGED LinkModel
       ELSE /\ LinkModel' = LinkModel (+) SetToBag({[hash |-> hash, userId |-> r.userId]})
            /\ resp' = Response("share", r.userId, "true", 200, "", hash, NoContent)
    /\ inflight' = inflight (-) SetToBag({r})
    /\ req' = Continued
    /\ UNCHANGED <<UserModel, ContentModel, userSeq, contentSeq, tokens, signedUp>>

\* The enable branch after LinkModel.findOne returned null: random(10),
\* LinkModel.create and the response.
ShareCreate(r, hash) ==
    /\ BagIn(r, inflight) /\ r.kind = "share.create"
    /\ hash \in random(HashLen)
    /\ BagCardinality(LinkModel) < MaxLinks
    /\ LinkModel' = LinkModel (+) SetToBag({[hash |-> hash, userId |-> r.userId]})
    /\ inflight' = inflight (-) SetToBag({r})
    /\ resp' = Response("share", r.userId, "true", 200, "", hash, NoContent)
    /\ req' = Continued
    /\ UNCHANGED <<UserModel, ContentModel, userSeq, contentSeq, tokens, signedUp>>

\* ---------------------------------------- GET /api/v1/brain/:shareLink

\* Codes a client may ask for: every code random(10) can return and a
\* string of another length.
ShareLinkInputs == random(HashLen) \cup {"short"}

\* Variant: the lookup without the hash filter.
FindLinkAnyHash(hash) == BagToSet(LinkModel)

\* LinkModel.findOne({hash}): the documents it can return
FindLinkByHash(hash) == {l \in BagToSet(LinkModel) : l.hash = hash}

\* UserModel.findOne({_id})
FindUserById(id) == {u \in UserModel : u._id = id}

\* The handler up to and including the await of LinkModel.findOne.
ResolveLink(hash) ==
    /\ IF hash = "" \/ Len(hash) # HashLen
       THEN /\ resp' = Response("resolve", NoUser, hash, 400, "Invalid share link format", "", NoContent)
            /\ UNCHANGED inflight
       ELSE IF FindLinkByHash(hash) = {}
       THEN /\ resp' = Response("resolve", NoUser, hash, 404, "Share link not found", "", NoContent)
            /\ UNCHANGED inflight
       ELSE \E link \in FindLinkByHash(hash) :
              /\ ParkedCount({"resolve.content", "resolve.user"}) < MaxResolves
              /\ inflight' = inflight (+) SetToBag({Parked("resolve.content", link.userId, hash, NoContent)})
              /\ UNCHANGED resp
    /\ req' = NoHeaders
    /\ UNCHANGED <<UserModel, ContentModel, LinkModel, userSeq, contentSeq, tokens,
                   signedUp>>

\* The await of ContentModel.find({userId: link.userId}).
ResolveContent(r) ==
    /\ BagIn(r, inflight) /\ r.kind = "resolve.content"
    /\ inflight' = (inflight (-) SetToBag({r}))
                   (+) SetToBag({Parked("resolve.user", r.userId, r.hash, FindContentByUser(r.userId))})
    /\ req' = Continued
    /\ UNCHANGED <<UserModel, ContentModel, LinkModel, userSeq, contentSeq, tokens,
                   signedUp, resp>>

\* Variant: the resolve deletes the documents it returns.
ResolveUserPurge(r) ==
    /\ BagIn(r, inflight) /\ r.kind = "resolve.user"
    /\ inflight' = inflight (-) SetToBag({r})
    /\ ContentModel' = ContentModel \ r.content
    /\ IF FindUserById(r.userId) = {}
       THEN resp' = Response("resolve", NoUser, r.hash, 404, "User not found", "", NoContent)
       ELSE \E user \in FindUserById(r.userId) :
              resp' = Response("resolve", NoUser, r.hash, 200, "", user.username, r.content)
    /\ req' = Continued
    /\ UNCHANGED <<UserModel, LinkModel, userSeq, contentSeq, tokens, signedUp>>

\* The await of UserModel.findOne({_id: link.userId}) and the response.
ResolveUser(r) ==
    /\ BagIn(r, inflight) /\ r.kind = "resolve.user"
    /\ inflight' = inflight (-) SetToBag({r})
    /\ IF FindUserById(r.userId) = {}
       THEN resp' = Response("resolve", NoUser, r.hash, 404, "User not found", "", NoContent)
       ELSE \E user \in FindUserById(r.userId) :
              resp' = Response("resolve", NoUser, r.hash, 200, "", user.username, r.content)
    /\ req' = Continued
    /\ UNCHANGED <<UserModel, ContentModel, LinkModel, userSeq, contentSeq, tokens,
                   signedUp>>

\* ------------------------------------------- store operations that fail

\* The answer of a handler's catch-all branch: 500 with the handler's message.
Failure(op, userId, arg, message) == Response(op, userId, arg, 500, message, "", NoContent)

\* POST /signup when bcrypt.hash or UserModel.create rejects with an error
\* that is no duplicate key.
SignupFail(username, password) ==
    /\ signupSchema(username, password)
    /\ resp' = Failure("signup", NoUser, username, "Internal server error")
    /\ req' = NoHeaders
    /\ UNCHANGED <<UserModel, ContentModel, LinkModel, userSeq, contentSeq, tokens,
                   signedUp, inflight>>

\* POST /signin when UserModel.findOne (or bcrypt.compare) rejects.
SigninFail(username, password) ==
    /\ signinSchema(username, password)
    /\ resp' = Failure("signin", NoUser, username, "Internal server error")
    /\ req' = NoHeaders
    /\ UNCHANGED <<UserModel, ContentModel, LinkModel, userSeq, contentSeq, tokens,
                   signedUp, inflight>>

\* POST /content when ContentModel.create rejects.
AddContentFail(headers, body) ==
    /\ Authorize[headers].next
    /\ contentSchema(body)
    /\ resp' = Failure("addContent", Authorize[headers].userId, body.link, "Failed to add content")
    /\ req' = headers
    /\ UNCHANGED <<UserModel, ContentModel, LinkModel, userSeq, contentSeq, tokens,
                   signedUp, inflight>>

\* GET /content when ContentModel.find rejects.
ListContentFail(headers) ==
    /\ Authorize[headers].next
    /\ resp' = Failure("listContent", Authorize[headers].userId, "", "Failed to fetch content")
    /\ req' = headers
    /\ UNCHANGED <<UserModel, ContentModel, LinkModel, userSeq, contentSeq, tokens,
                   signedUp, inflight>>

\* DELETE /content/:contentId when ContentModel.deleteOne rejects.
DeleteContentParamFail(headers, contentId) ==
    /\ Authorize[headers].next
    /\ IsObjectIdFormat(contentId)
    /\ resp' = Failure("deleteContentParam", Authorize[headers].userId, contentId,
                       "Failed to delete content")
    /\ req' = headers
    /\ UNCHANGED <<UserModel, ContentModel, LinkModel, userSeq, contentSeq, tokens,
                   signedUp, inflight>>

\* DELETE /content when ContentModel.deleteOne rejects.
DeleteContentBodyFail(headers, body) ==
    /\ Authorize[headers].next
    /\ deleteContentSchema(body)
    /\ IsObjectIdFormat(body.contentId)
    /\ resp' = Failure("deleteContentBody", Authorize[headers].userId, body.contentId,
                       "Failed to delete content")
    /\ req' = headers
    /\ UNCHANGED <<UserModel, ContentModel, LinkModel, userSeq, contentSeq, tokens,
                   signedUp, inflight>>

\* POST /brain/share when its first store operation rejects: LinkModel.findOne
\* of an enable, LinkModel.deleteOne of a disable.
ShareToggleFail(headers, body) ==
    /\ Authorize[headers].next
    /\ shareSchema(body)
    /\ resp' = Failure("share", Authorize[headers].userId, body, "Failed to process share request")
    /\ req' = headers
    /\ UNCHANGED <<UserModel, ContentModel, LinkModel, userSeq, contentSeq, tokens,
                   signedUp, inflight>>

\* Variant: a rejected LinkModel.create is tried again later instead of
\* being answered.
ShareCreateRetry(r) ==
    /\ BagIn(r, inflight) /\ r.kind = "share.create"
    /\ req' = Continued
    /\ UNCHANGED <<UserModel, ContentModel, LinkModel, userSeq, contentSeq, tokens,
                   signedUp, inflight, resp>>

\* POST /brain/share when LinkModel.create rejects.
ShareCreateFail(r) ==
    /\ BagIn(r, inflight) /\ r.kind = "share.create"
    /\ inflight' = inflight (-) SetToBag({r})
    /\ resp' = Failure("share", r.userId, "true", "Failed to process share request")
    /\ req' = Continued
    /\ UNCHANGED <<UserModel, ContentModel, LinkModel, userSeq, contentSeq, tokens,
                   signedUp>>

\* GET /brain/:shareLink when LinkModel.findOne rejects.
ResolveLinkFail(hash) ==
    /\ hash # "" /\ Len(hash) = HashLen
    /\ resp' = Failure("resolve", NoUser, hash, "Failed to fetch shared brain")
    /\ req' = NoHeaders
    /\ UNCHANGED <<UserModel, ContentModel, LinkModel, userSeq, contentSeq, tokens,
                   signedUp, inflight>>

\* GET /brain/:shareLink when ContentModel.find rejects.
ResolveContentFail(r) ==
    /\ BagIn(r, inflight) /\ r.kind = "resolve.content"
    /\ inflight' = inflight (-) SetToBag({r})
    /\ resp' = Failure("resolve", NoUser, r.hash, "Failed to fetch shared brain")
    /\ req' = Continued
    /\ UNCHANGED <<UserModel, ContentModel, LinkModel, userSeq, contentSeq, tokens,
                   signedUp>>

\* GET /brain/:shareLink when UserModel.findOne rejects.
ResolveUserFail(r) ==
    /\ BagIn(r, inflight) /\ r.kind = "resolve.user"
    /\ inflight' = inflight (-) SetToBag({r})
    /\ resp' = Failure("resolve", NoUser, r.hash, "Failed to fetch shared brain")
    /\ req' = Continued
    /\ UNCHANGED <<UserModel, ContentModel, LinkModel, userSeq, contentSeq, tokens,
                   signedUp>>

\* ------------------------------------------------------------ the system

NoResponse == Response("none", NoUser, "", 0, "", "", NoContent)

\* The state after construction: empty collections, nothing sent.
Init ==
    /\ UserModel = {}
    /\ ContentModel = {}
    /\ LinkModel = EmptyBag
    /\ userSeq = 0
    /\ contentSeq = 0
    /\ tokens = {}
    /\ signedUp = {}
    /\ active = {}
    /\ retired = {}
    /\ inflight = EmptyBag
    /\ req = NoHeaders
    /\ resp = NoResponse

\* The accounts after alice and bob have signed up and signed in, in that
\* order (a state SpecContent reaches from Init: see RegisteredReached).
Registered ==
    /\ UserModel =
         {[_id |-> UserObjectId(1), username |-> "alice",
           password |-> bcryptHash("secret1", "saltA")],
          [_id |-> UserObjectId(2), username |-> "bob",
           password |-> bcryptHash("secret2", "saltA")]}
    /\ userSeq = 2
    /\ signedUp =
         {[username |-> "alice", password |-> "secret1", _id |-> UserObjectId(1)],
          [username |-> "bob", password |-> "secret2", _id |-> UserObjectId(2)]}
    /\ tokens = {sign(ObjectPayload(UserObjectId(1)), JWT_PASSWORD),
                 sign(ObjectPayload(UserObjectId(2)), JWT_PASSWORD)}
    /\ req = NoHeaders
    /\ resp = Response("signin", NoUser, "bob", 200, "",
                       sign(ObjectPayload(UserObjectId(2)), JWT_PASSWORD), NoContent)

InitRegistered ==
    /\ Registered
    /\ ContentModel = {}
    /\ LinkModel = EmptyBag
    /\ contentSeq = 0
    /\ active = {}
    /\ retired = {}
    /\ inflight = EmptyBag

\* The arguments worth sending with a header map: all of S when the
\* middleware lets the request through, one of them (never read) otherwise.
ArgsFor(headers, S, unread) == IF Authorize[headers].next THEN S ELSE {unread}

\* ---- history of the share codes (auxiliary: read by no handler)

NoHistory == UNCHANGED <<active, retired>>

Of(userId, pairs) == {p \in pairs : p[1] = userId}

\* A share request by an authenticated user.  An enable forgets the user's
\* retired codes and records the code it is answered with; a disable retires
\* the user's active codes.
ToggleHistory(headers, body) ==
    LET auth == Authorize[headers] IN
    IF auth.next /\ shareSchema(body)
    THEN IF body = "true"
         THEN /\ retired' = retired \ Of(auth.userId, retired)
              /\ active' = IF FindLinkByUser(auth.userId) # {}
                           THEN active \cup {<<auth.userId, resp'.data>>}
                           ELSE active
         ELSE /\ retired' = retired \cup Of(auth.userId, active)
              /\ active' = active \ Of(auth.userId, active)
    ELSE NoHistory

CreateHistory(r, hash) ==
    /\ active' = active \cup {<<r.userId, hash>>}
    /\ retired' = retired \ Of(r.userId, retired)

\* ---- accounts and content, from the empty store

NextContent ==
    \/ \E username \in Usernames \cup {"al"}, password \in Passwords \cup {"short"}, salt \in Salts :
          Signup(username, password, salt) /\ NoHistory
    \/ \E username \in Usernames \cup {""}, password \in Passwords \cup {""} :
          Signin(username, password) /\ NoHistory
    \/ \E headers \in ClientHeaderMaps :
          \E body \in ArgsFor(headers, ContentBodies, CHOOSE b \in ContentBodies : TRUE) :
             AddContent(headers, body) /\ NoHistory
    \/ \E headers \in ClientHeaderMaps : ListContent(headers) /\ NoHistory
    \/ \E headers \in ClientHeaderMaps : \E contentId \in ArgsFor(headers, ContentIdInputs, "") :
          DeleteContentParam(headers, contentId) /\ NoHistory
    \/ \E headers \in ClientHeaderMaps :
          \E contentId \in ArgsFor(headers, ContentIdInputs \cup {""}, "") :
             DeleteContentBody(headers, [contentId |-> contentId]) /\ NoHistory

SpecContent == Init /\ [][NextContent]_vars

\* ---- share links of two registered users, with the history of their codes

NextShare ==
    \/ \E headers \in BearerHeaderMaps : \E body \in ArgsFor(headers, ShareBodies, "true") :
          ShareToggle(headers, body) /\ ToggleHistory(headers, body)
    \/ \E r \in BagToSet(inflight), hash \in random(HashLen) :
          ShareCreate(r, hash) /\ CreateHistory(r, hash)
    \/ \E hash \in ShareLinkInputs : ResolveLink(hash) /\ NoHistory
    \/ \E r \in BagToSet(inflight) : ResolveContent(r) /\ NoHistory
    \/ \E r \in BagToSet(inflight) : ResolveUser(r) /\ NoHistory

SpecShare == InitRegistered /\ [][NextShare]_vars

\* ---- share links when the toggles of one user do not overlap

\* A share request arrives only when no enable of its user is parked.
NoOverlap(headers) ==
    Authorize[headers].next => ParkedFor(Authorize[headers].userId, "share.create") = {}

NextSequential ==
    \/ \E headers \in BearerHeaderMaps : \E body \in ArgsFor(headers, ShareBodies, "true") :
          NoOverlap(headers) /\ ShareToggle(headers, body) /\ ToggleHistory(headers, body)
    \/ \E r \in BagToSet(inflight), hash \in random(HashLen) :
          ShareCreate(r, hash) /\ CreateHistory(r, hash)
    \/ \E hash \in ShareLinkInputs : ResolveLink(hash) /\ NoHistory
    \/ \E r \in BagToSet(inflight) : ResolveContent(r) /\ NoHistory
    \/ \E r \in BagToSet(inflight) : ResolveUser(r) /\ NoHistory

SpecSequential == InitRegistered /\ [][NextSequential]_vars

\* ---- content read through share links that exist already

\* The Link documents two registered users can have.
LinkDocs == {[hash |-> h, userId |-> u] : h \in random(HashLen), u \in UserIds}

CountOf(userId, B) ==
    BagCardinality([l \in {d \in DOMAIN B : d.userId = userId} |-> B[l]])

\* The contents of LinkModel that SpecShare reaches: any documents, at most
\* MaxLinks in all and, per user, at most one per overlapping enable.
LinkPopulations ==
    {B \in UNION {[D -> 1..MaxLinks] : D \in SUBSET LinkDocs} :
        /\ BagCardinality(B) <= MaxLinks
        /\ \A u \in UserIds : CountOf(u, B) <= MaxEnables}

InitShared ==
    /\ Registered
    /\ ContentModel = {}
    /\ contentSeq = 0
    /\ LinkModel \in LinkPopulations
    /\ active = {}
    /\ retired = {}
    /\ inflight = EmptyBag

NextResolve ==
    \/ \E headers \in BearerHeaderMaps :
          \E body \in ArgsFor(headers, ContentBodies, CHOOSE b \in ContentBodies : TRUE) :
             AddContent(headers, body) /\ NoHistory
    \/ \E headers \in BearerHeaderMaps : \E contentId \in ArgsFor(headers, ContentIdInputs, "") :
          DeleteContentParam(headers, contentId) /\ NoHistory
    \/ \E headers \in BearerHeaderMaps : ShareToggle(headers, "false") /\ NoHistory
    \/ \E hash \in ShareLinkInputs : ResolveLink(hash) /\ NoHistory
    \/ \E r \in BagToSet(inflight) : ResolveContent(r) /\ NoHistory
    \/ \E r \in BagToSet(inflight) : ResolveUser(r) /\ NoHistory

SpecResolve == InitShared /\ [][NextResolve]_vars

\* ---- every protected route under every kind of credential

NextVerifier ==
    \/ \E headers \in HeaderMaps :
          \E body \in ArgsFor(headers, ContentBodies, CHOOSE b \in ContentBodies : TRUE) :
             AddContent(headers, body) /\ NoHistory
    \/ \E headers \in HeaderMaps : ListContent(headers) /\ NoHistory
    \/ \E headers \in HeaderMaps : \E contentId \in ArgsFor(headers, ContentIdInputs, "") :
          DeleteContentParam(headers, contentId) /\ NoHistory
    \/ \E headers \in HeaderMaps : \E contentId \in ArgsFor(headers, ContentIdInputs \cup {""}, "") :
          DeleteContentBody(headers, [contentId |-> contentId]) /\ NoHistory
    \/ \E headers \in HeaderMaps : \E body \in ArgsFor(headers, ShareBodies, "true") :
          ShareToggle(headers, body) /\ NoHistory
    \/ \E r \in BagToSet(inflight), hash \in random(HashLen) :
          ShareCreate(r, hash) /\ NoHistory

SpecVerifier == InitRegistered /\ [][NextVerifier]_vars

\* ---- every route, each store operation succeeding or failing

\* The continuation of a parked request after its store operation settled,
\* with success or with failure.
Resume(r) ==
    \/ \E hash \in random(HashLen) : ShareCreate(r, hash) /\ NoHistory
    \/ ShareCreateFail(r) /\ NoHistory
    \/ ResolveContent(r) /\ NoHistory
    \/ ResolveContentFail(r) /\ NoHistory
    \/ ResolveUser(r) /\ NoHistory
    \/ ResolveUserFail(r) /\ NoHistory

\* The continuation of some request of a kind parked for a user.
ResumeFor(userId, kind) == \E r \in ParkedFor(userId, kind) : Resume(r)

ParkedKinds == {"share.create", "resolve.content", "resolve.user"}

\* What the one client of this specification sends: nothing, or the first
\* user's token, Bearer-prefixed.
OneClientHeaderMaps ==
    {NoHeaders, Auth("Bearer " \o sign(ObjectPayload(UserObjectId(1)), JWT_PASSWORD))}

NextFailure ==
    \/ \E username \in Usernames, password \in Passwords, salt \in Salts :
          Signup(username, password, salt) /\ NoHistory
    \/ \E username \in Usernames, password \in Passwords :
          SignupFail(username, password) /\ NoHistory
    \/ \E username \in Usernames, password \in Passwords :
          Signin(username, password) /\ NoHistory
    \/ \E username \in Usernames, password \in Passwords :
          SigninFail(username, password) /\ NoHistory
    \/ \E headers \in OneClientHeaderMaps :
          \E body \in ArgsFor(headers, ContentBodies, CHOOSE b \in ContentBodies : TRUE) :
             AddContent(headers, body) /\ NoHistory
    \/ \E headers \in OneClientHeaderMaps, body \in ContentBodies :
          AddContentFail(headers, body) /\ NoHistory
    \/ \E headers \in OneClientHeaderMaps : ListContent(headers) /\ NoHistory
    \/ \E headers \in OneClientHeaderMaps : ListContentFail(headers) /\ NoHistory
    \/ \E headers \in OneClientHeaderMaps : \E contentId \in ArgsFor(headers, ContentIdInputs, "") :
          DeleteContentParam(headers, contentId) /\ NoHistory
    \/ \E headers \in OneClientHeaderMaps, contentId \in ContentIdInputs :
          DeleteContentParamFail(headers, contentId) /\ NoHistory
    \/ \E headers \in OneClientHeaderMaps :
          \E contentId \in ArgsFor(headers, ContentIdInputs \cup {""}, "") :
             DeleteContentBody(headers, [contentId |-> contentId]) /\ NoHistory
    \/ \E headers \in OneClientHeaderMaps, contentId \in ContentIdInputs \cup {""} :
          DeleteContentBodyFail(headers, [contentId |-> contentId]) /\ NoHistory
    \/ \E headers \in OneClientHeaderMaps : \E body \in ArgsFor(headers, ShareBodies, "true") :
          ShareToggle(headers, body) /\ NoHistory
    \/ \E headers \in OneClientHeaderMaps, body \in ShareBodies :
          ShareToggleFail(headers, body) /\ NoHistory
    \/ \E hash \in ShareLinkInputs : ResolveLink(hash) /\ NoHistory
    \/ \E hash \in ShareLinkInputs : ResolveLinkFail(hash) /\ NoHistory
    \/ \E r \in BagToSet(inflight) : Resume(r)

\* An awaited store operation settles, so a parked request is continued: the
\* event loop runs the continuation of every settled promise.
FairResume ==
    \A userId \in UserIds, kind \in ParkedKinds :
       WF_vars(ResumeFor(userId, kind))

SpecFailure == InitRegistered /\ [][NextFailure]_vars /\ FairResume

\* ---- every route of one client, while a second user signs up

\* The state after alice has signed up and signed in (a state SpecContent
\* reaches from Init: see OneRegisteredReached).
OneRegistered ==
    /\ UserModel =
         {[_id |-> UserObjectId(1), username |-> "alice",
           password |-> bcryptHash("secret1", "saltA")]}
    /\ userSeq = 1
    /\ signedUp =
         {[username |-> "alice", password |-> "secret1", _id |-> UserObjectId(1)]}
    /\ tokens = {sign(ObjectPayload(UserObjectId(1)), JWT_PASSWORD)}
    /\ req = NoHeaders
    /\ resp = Response("signin", NoUser, "alice", 200, "",
                       sign(ObjectPayload(UserObjectId(1)), JWT_PASSWORD), NoContent)

InitOneRegistered ==
    /\ OneRegistered
    /\ ContentModel = {}
    /\ LinkModel = EmptyBag
    /\ contentSeq = 0
    /\ active = {}
    /\ retired = {}
    /\ inflight = EmptyBag

NextFrame ==
    \/ \E username \in Usernames, password \in Passwords, salt \in Salts :
          Signup(username, password, salt) /\ NoHistory
    \/ \E username \in Usernames, password \in Passwords :
          Signin(username, password) /\ NoHistory
    \/ \E headers \in OneClientHeaderMaps :
          \E body \in ArgsFor(headers, ContentBodies, CHOOSE b \in ContentBodies : TRUE) :
             AddContent(headers, body) /\ NoHistory
    \/ \E headers \in OneClientHeaderMaps : ListContent(headers) /\ NoHistory
    \/ \E headers \in OneClientHeaderMaps : \E contentId \in ArgsFor(headers, ContentIdInputs, "") :
          DeleteContentParam(headers, contentId) /\ NoHistory
    \/ \E headers \in OneClientHeaderMaps :
          \E contentId \in ArgsFor(headers, ContentIdInputs \cup {""}, "") :
             DeleteContentBody(headers, [contentId |-> contentId]) /\ NoHistory
    \/ \E headers \in OneClientHeaderMaps : \E body \in ArgsFor(headers, ShareBodies, "true") :
          ShareToggle(headers, body) /\ NoHistory
    \/ \E r \in BagToSet(inflight), hash \in random(HashLen) :
          ShareCreate(r, hash) /\ NoHistory
    \/ \E hash \in ShareLinkInputs : ResolveLink(hash) /\ NoHistory
    \/ \E r \in BagToSet(inflight) : ResolveContent(r) /\ NoHistory
    \/ \E r \in BagToSet(inflight) : ResolveUser(r) /\ NoHistory

SpecFrame == InitOneRegistered /\ [][NextFrame]_vars

\* ================================================================ claims

\* The token signin returns for a signed-up user, and the two header maps
\* that carry it.
TokenOf(s) == sign(ObjectPayload(s._id), JWT_PASSWORD)
Carries(headers, s) == headers \in {Auth(TokenOf(s)), Auth("Bearer " \o TokenOf(s))}

DeleteOps == {"deleteContentParam", "deleteContentBody"}

StoreUnchanged == UNCHANGED <<UserModel, ContentModel, LinkModel, userSeq, contentSeq>>

\* InitRegistered is a state of the running system: SpecContent reaches it.
RegisteredReached == Registered /\ ContentModel = {} /\ contentSeq = 0

\* C1: a document leaves ContentModel only in a step that received a delete
\* request carrying its owner's token, so a delete sent with user A's token
\* removes no document of another user; when the id it names is that of
\* another user's document, nothing at all is deleted and the answer is 404.
C1_DeleteNeverRemovesOthers ==
    [][/\ \A c \in ContentModel \ ContentModel' :
            /\ resp'.op \in DeleteOps
            /\ \E a \in signedUp : Carries(req', a) /\ c.userId = a._id
       /\ resp'.op \in DeleteOps =>
            \A a \in signedUp :
                ( /\ Carries(req', a)
                  /\ \E c \in ContentModel : c._id = resp'.arg /\ c.userId # a._id )
                => /\ ContentModel' = ContentModel
                   /\ resp'.status = 404]_vars

\* C1 witness: a delete by one user naming the id of a document that another
\* user owns was answered 404 and the document is still stored.
C1_Witness ==
    /\ resp.op \in DeleteOps /\ resp.status = 404
    /\ \E a \in signedUp : Carries(req, a) /\ resp.userId = a._id
    /\ \E c \in ContentModel : c._id = resp.arg /\ c.userId # resp.userId

\* C6: at most one User document per username and at most one successful
\* signup per username; a signup that reuses a stored username is rejected
\* and stores nothing, with 409 when its payload passes signupSchema (a
\* payload that does not is rejected with 400 before the store is asked).
UniqueUsernames ==
    /\ \A u, v \in UserModel : u.username = v.username => u = v
    /\ \A s, t \in signedUp : s.username = t.username => s = t

C6_DuplicateSignupRejected ==
    /\ []UniqueUsernames
    /\ [][(resp'.op = "signup" /\ \E u \in UserModel : u.username = resp'.arg) =>
            /\ UserModel' = UserModel /\ signedUp' = signedUp
            /\ resp'.status \in {400, 409}
            /\ \A password \in Passwords \cup {"short"}, salt \in Salts :
                  (Signup(resp'.arg, password, salt) /\ signupSchema(resp'.arg, password))
                  => resp'.status = 409 /\ resp'.message = "Username already exists"]_vars

\* C6 witness: both usernames are taken and a further signup got 409.
C6_Witness ==
    /\ resp.op = "signup" /\ resp.status = 409
    /\ Cardinality(UserModel) = Cardinality(Usernames)

\* C7: a signin whose payload passes signinSchema gets the same answer, 403
\* "Invalid credentials" with no token, whether the username is not stored or
\* the password is not the one signed up with; neither changes the store nor
\* the set of issued tokens.
C7_SigninFailuresAlike ==
    [][resp'.op = "signin" =>
        \A username \in Usernames \cup {""}, password \in Passwords \cup {""} :
            ( /\ Signin(username, password)
              /\ signinSchema(username, password)
              /\ ~\E s \in signedUp : s.username = username /\ s.password = password )
            => /\ resp'.status = 403
               /\ resp'.message = "Invalid credentials"
               /\ resp'.data = ""
               /\ tokens' = tokens
               /\ StoreUnchanged]_vars

\* C7 witness: a signin for a stored username was answered 403 (its password
\* was not the stored one: the right one is answered 200).
C7_Witness ==
    /\ resp.op = "signin" /\ resp.status = 403
    /\ \E u \in UserModel : u.username = resp.arg

\* C8: a signup with a payload that passes signupSchema and a username not
\* stored succeeds; from then on every signin with that username and
\* password succeeds, and the token it returns is resolved by the middleware
\* (raw or Bearer-prefixed) to the _id of the User that signup created.
C8_SignupThenSignin ==
    [][/\ resp'.op = "signup" =>
            \A password \in Passwords, salt \in Salts :
                ( /\ Signup(resp'.arg, password, salt)
                  /\ resp'.arg \in Usernames
                  /\ ~\E u \in UserModel : u.username = resp'.arg )
                => /\ resp'.status = 200
                   /\ \E s \in signedUp' : s.username = resp'.arg /\ s.password = password
       /\ resp'.op = "signin" =>
            \A s \in signedUp :
                Signin(s.username, s.password)
                => /\ resp'.status = 200
                   /\ \A headers \in {Auth(resp'.data), Auth("Bearer " \o resp'.data)} :
                         /\ userMiddleware(headers).next
                         /\ userMiddleware(headers).userId = s._id]_vars

\* C8 witness: a signin succeeded for the user who signed up second, after
\* content was created and deleted in between.
C8_Witness ==
    /\ resp.op = "signin" /\ resp.status = 200
    /\ \E s \in signedUp : s._id = UserObjectId(2) /\ resp.data = TokenOf(s)
    /\ contentSeq > Cardinality(ContentModel)

\* ---- the Identity Verifier (SpecVerifier)

\* A header map that carries, raw or Bearer-prefixed, a claim {id} signed with
\* the server's secret.
ValidFor(headers, id) ==
    LET t == sign(ObjectPayload(id), JWT_PASSWORD)
    IN  headers \in {Auth(t), Auth("Bearer " \o t)}
Valid(headers) == \E id \in UserIds : ValidFor(headers, id)

ProtectedOps == {"addContent", "listContent", "deleteContentParam",
                 "deleteContentBody", "share"}

HandlerNotInvoked ==
    /\ resp'.op = "userMiddleware"
    /\ StoreUnchanged
    /\ UNCHANGED inflight

\* C5: a protected request whose header map is not a validly signed claim is
\* answered by the middleware (401 or 403) with the store and the parked
\* requests left as they are; one that is gets through, and the identity the
\* handler answers for, parks, creates, deletes and unshares for is the id in
\* the token.  A parked enable creates its link for the identity it was
\* parked with.
C5_OnlyVerifiedIdentityActs ==
    [][/\ (req' # Continued /\ ~Valid(req')) =>
            /\ HandlerNotInvoked
            /\ resp'.status \in {401, 403}
       /\ \A id \in UserIds : (req' # Continued /\ ValidFor(req', id)) =>
            /\ inflight' = inflight => (resp'.op \in ProtectedOps /\ resp'.userId = id)
            /\ inflight' # inflight =>
                 inflight' = inflight (+) SetToBag({Parked("share.create", id, "", NoContent)})
            /\ \A c \in (ContentModel' \ ContentModel) \cup (ContentModel \ ContentModel') :
                 c.userId = id
            /\ \A l \in DOMAIN LinkModel :
                 CopiesIn(l, LinkModel') # CopiesIn(l, LinkModel) => l.userId = id
       /\ req' = Continued =>
            \A l \in DOMAIN LinkModel' :
                CopiesIn(l, LinkModel') # CopiesIn(l, LinkModel) =>
                    \E r \in BagToSet(inflight) :
                        /\ r.kind = "share.create" /\ r.userId = l.userId
                        /\ CopiesIn(r, inflight') < CopiesIn(r, inflight)]_vars

\* C5 witness: with content stored for the user it names, a token signed
\* with another key was turned away by the middleware.
C5_Witness ==
    /\ req \in {Auth(c) : c \in ForgedCredentials}
    /\ resp.op = "userMiddleware" /\ resp.status = 401
    /\ \E c \in ContentModel : c.userId = UserObjectId(1)

\* C10: what the middleware answers depends on the header map alone: no
\* authorization header, 401; a value that is no token of this server
\* (malformed, or signed with another key), 401; a signed bare string, 403;
\* and in each case the route's handler does not run.
C10_RejectionByHeader ==
    [][req' # Continued =>
        /\ req' = NoHeaders => (HandlerNotInvoked /\ resp'.status = 401)
        /\ req' \in {Auth(c) : c \in MalformedCredentials \cup ForgedCredentials}
              => (HandlerNotInvoked /\ resp'.status = 401)
        /\ req' \in {Auth(c) : c \in StringCredentials}
              => (HandlerNotInvoked /\ resp'.status = 403)]_vars

\* C10 witness: a request whose token is a signed bare string got 403 while
\* a share-enable of a verified user was parked.
C10_Witness ==
    /\ req \in {Auth(c) : c \in StringCredentials}
    /\ resp.op = "userMiddleware" /\ resp.status = 403
    /\ inflight # EmptyBag

\* ---- share links (SpecShare)

UsernameOf(userId) == (CHOOSE s \in signedUp : s._id = userId).username

\* C2: once a disable of user U has completed and U has not enabled again,
\* a resolve of any code that was returned to U is answered 404 at its link
\* lookup.
C2_RevokedCodeNotFound ==
    [][\A hash \in ShareLinkInputs :
          (ResolveLink(hash) /\ \E p \in retired : p[2] = hash)
          => /\ resp'.op = "resolve" /\ resp'.arg = hash /\ resp'.status = 404
             /\ UNCHANGED inflight]_vars

\* C3: from the moment a code is returned to user U until U disables, a
\* resolve of the code finds U's link and is answered with U's username.
C3_ActiveCodeResolvesToOwner ==
    [][/\ \A p \in active :
            ResolveLink(p[2]) =>
               inflight' = inflight (+) SetToBag({Parked("resolve.content", p[1], p[2], NoContent)})
       /\ \A r \in BagToSet(inflight) :
            ResolveUser(r) => (resp'.status = 200 /\ resp'.data = UsernameOf(r.userId))]_vars

\* C4: an enable of user U that starts after an enable of U has completed,
\* with no disable of U in between, is answered with the code the earlier
\* one returned, and creates no Link document.
C4_SequentialEnableSameCode ==
    [][\A s \in signedUp :
          ( /\ Carries(req', s)
            /\ ShareToggle(req', "true")
            /\ Of(s._id, active) # {} )
          => /\ LinkModel' = LinkModel
             /\ UNCHANGED inflight
             /\ resp'.op = "share" /\ resp'.status = 200
             /\ \A p \in Of(s._id, active) : resp'.data = p[2]]_vars

\* C9: for a user U with a Link document (c, U) in the store, a resolve of c
\* proceeds for U: its content read returns exactly the Content documents
\* that U owns at that moment, and its answer is 200 with U's username and
\* those documents.
C9_ResolveReturnsOwnersContent ==
    [][/\ \A l \in BagToSet(LinkModel) :
            ResolveLink(l.hash) =>
               inflight' = inflight (+) SetToBag({Parked("resolve.content", l.userId, l.hash, NoContent)})
       /\ \A r \in BagToSet(inflight) :
            ResolveContent(r) =>
               inflight' = (inflight (-) SetToBag({r})) (+)
                  SetToBag({Parked("resolve.user", r.userId, r.hash,
                                   {c \in ContentModel : c.userId = r.userId})})
       /\ \A r \in BagToSet(inflight) :
            ResolveUser(r) =>
               /\ resp'.status = 200
               /\ resp'.data = UsernameOf(r.userId)
               /\ resp'.content = r.content]_vars

\* ---- delete answers (SpecContent)

NotFoundMessage == "Content not found or not authorized to delete"

\* C11: a delete with a well-formed id that names no document of the
\* requester, whether the id is stored for nobody or stored for another user,
\* gets one and the same answer, 404 with the same message, and changes
\* nothing in the store.
C11_DeleteNotFoundAlike ==
    [][resp'.op \in DeleteOps =>
          \A a \in signedUp :
             ( /\ Carries(req', a)
               /\ IsObjectIdFormat(resp'.arg)
               /\ ~ \E c \in ContentModel : c._id = resp'.arg /\ c.userId = a._id )
             => /\ <<resp'.status, resp'.message>> = <<404, NotFoundMessage>>
                /\ StoreUnchanged]_vars

\* C11 witness: a delete naming an id that is stored for nobody was answered
\* 404 while a document of another user is stored.
C11_Witness ==
    /\ resp.op \in DeleteOps /\ resp.status = 404 /\ resp.message = NotFoundMessage
    /\ IsObjectIdFormat(resp.arg)
    /\ \A c \in ContentModel : c._id # resp.arg
    /\ \E c \in ContentModel : c.userId # resp.userId

\* ---- share disable (SpecShare)

\* C12: a disable by a user who has no Link document is answered 200
\* "Removed link" and leaves every collection, and every parked request, as
\* it is; so a disable repeated in that state does the same again.
C12_DisableWithoutLink ==
    [][\A s \in signedUp :
          ( /\ Carries(req', s)
            /\ ShareToggle(req', "false")
            /\ FindLinkByUser(s._id) = {} )
          => /\ resp' = Response("share", s._id, "false", 200, "Removed link", "", NoContent)
             /\ StoreUnchanged
             /\ UNCHANGED inflight]_vars

\* C12 witness: a user who was never answered a code and has no Link document
\* was answered 200 to a disable while another user's link is stored.
C12_Witness ==
    /\ resp.op = "share" /\ resp.arg = "false" /\ resp.status = 200
    /\ \E s \in signedUp : Carries(req, s) /\ resp.userId = s._id
    /\ FindLinkByUser(resp.userId) = {}
    /\ Of(resp.userId, active \cup retired) = {}
    /\ \A r \in BagToSet(inflight) : r.userId # resp.userId
    /\ LinkModel # EmptyBag

\* ---- content create and list (SpecContent)

\* C13: a successful create adds exactly one document, owned by the identity
\* of the token it came with and with no tags; a document enters the store
\* only so and leaves it only by a successful delete naming it; and a list by
\* user A returns the stored documents that A owns, each once and with A as
\* owner, and none that another user owns.
C13_CreateAndListByOwner ==
    [][/\ \A c \in ContentModel' \ ContentModel :
            /\ resp'.op = "addContent" /\ resp'.status = 200
            /\ ContentModel' = ContentModel \cup {c}
            /\ c._id = resp'.arg
            /\ \A d \in ContentModel : d._id # c._id
            /\ c.tags = {}
            /\ \E a \in signedUp : Carries(req', a) /\ c.userId = a._id
       /\ \A c \in ContentModel \ ContentModel' :
            /\ resp'.op \in DeleteOps /\ resp'.status = 200
            /\ resp'.arg = c._id
       /\ (resp'.op = "addContent" /\ resp'.status = 200) =>
            \E c \in ContentModel' \ ContentModel : TRUE
       /\ resp'.op = "listContent" =>
            \A a \in signedUp : Carries(req', a) =>
               /\ resp'.status = 200
               /\ StoreUnchanged
               /\ \A c \in ContentModel :
                     (c.userId = a._id) <=> (\E x \in resp'.content : x._id = c._id)
               /\ \A x \in resp'.content :
                     /\ x.userId = [_id |-> a._id, username |-> a.username]
                     /\ \E c \in ContentModel : x = [c EXCEPT !.userId = x.userId]
               /\ Cardinality(resp'.content)
                     = Cardinality({c \in ContentModel : c.userId = a._id})]_vars

\* C13 witness: two documents were created, a list by one user returned the
\* single document that user owns, and the other is another user's.
C13_Witness ==
    /\ resp.op = "listContent" /\ resp.status = 200
    /\ contentSeq = 2
    /\ Cardinality(resp.content) = 1
    /\ \E a \in signedUp : Carries(req, a) /\ resp.userId = a._id
    /\ \E c \in ContentModel : c.userId # resp.userId

\* ---- the enable window (SpecShare)

\* C14: an enable that finds no Link document of its user is parked before
\* its create whether or not another enable of the same user is parked
\* already, and a parked enable that resumes creates a Link document for its
\* user with the code it generated and returns that code, whether or not the
\* user has a Link document by then.
C14_EnableCheckThenAct ==
    [][/\ \A s \in signedUp :
            ( /\ Carries(req', s)
              /\ ShareToggle(req', "true")
              /\ FindLinkByUser(s._id) = {} )
            => /\ inflight' = inflight (+) SetToBag({Parked("share.create", s._id, "", NoContent)})
               /\ LinkModel' = LinkModel
       /\ \A r \in BagToSet(inflight) :
            (r.kind = "share.create" /\ CopiesIn(r, inflight') < CopiesIn(r, inflight))
            => /\ inflight' = inflight (-) SetToBag({r})
               /\ resp'.op = "share" /\ resp'.userId = r.userId /\ resp'.status = 200
               /\ resp'.data \in random(HashLen)
               /\ LinkModel' = LinkModel (+) SetToBag({[hash |-> resp'.data, userId |-> r.userId]})]_vars

\* C14 witness: one user has two Link documents with different codes, each
\* of them returned to the user by an enable, and no disable since.
C14_Witness ==
    \E u \in UserIds :
       /\ Cardinality(FindLinkByUser(u)) = 2
       /\ \A l \in FindLinkByUser(u) : <<u, l.hash>> \in active
       /\ ParkedFor(u, "share.create") = {}

\* ---- share disable with several links (SpecShare)

\* C15: when a disable by user U completes while no enable of U is parked,
\* U has no Link document left, however many U had before.
C15_DisableRemovesAllLinks ==
    [][\A s \in signedUp :
          ( /\ Carries(req', s)
            /\ ShareToggle(req', "false")
            /\ ParkedFor(s._id, "share.create") = {} )
          => {l \in BagToSet(LinkModel') : l.userId = s._id} = {}]_vars

\* ---- the per-user share state machine (SpecSequential)

AtMostOneLink == \A u \in UserIds : CountOf(u, LinkModel) <= 1

\* C16: when no share request of a user arrives while an enable of that user
\* is parked, every user has at most one Link document in every state, and the
\* user's links change as Unshared -enable-> Shared(code) -disable-> Unshared:
\* an enable in Shared(code) changes nothing and returns code, an enable in
\* Unshared ends with the one link whose code it returns, a disable ends in
\* Unshared, and no other step changes the user's links.
C16_SequentialStateMachine ==
    /\ []AtMostOneLink
    /\ [][\A u \in UserIds :
            LET before == FindLinkByUser(u)
                after == {l \in BagToSet(LinkModel') : l.userId = u}
                mine == \E s \in signedUp : s._id = u /\ Carries(req', s)
                resumed == \E r \in ParkedFor(u, "share.create") :
                              CopiesIn(r, inflight') < CopiesIn(r, inflight)
            IN  /\ (mine /\ ShareToggle(req', "true") /\ before # {}) =>
                      /\ after = before
                      /\ UNCHANGED inflight
                      /\ resp'.status = 200
                      /\ \A l \in before : resp'.data = l.hash
                /\ (mine /\ ShareToggle(req', "true") /\ before = {}) =>
                      /\ after = {}
                      /\ inflight' = inflight (+) SetToBag({Parked("share.create", u, "", NoContent)})
                /\ (mine /\ ShareToggle(req', "false")) =>
                      /\ after = {}
                      /\ resp'.status = 200
                /\ resumed =>
                      /\ before = {}
                      /\ after = {[hash |-> resp'.data, userId |-> u]}
                      /\ resp'.userId = u /\ resp'.status = 200
                /\ after # before =>
                      (resumed \/ (mine /\ ShareToggle(req', "false")))]_vars

\* C16 witness: an enable by a user in Shared(code) was answered with code,
\* while the other user is back in Unshared after a disable.
C16_Witness ==
    /\ resp.op = "share" /\ resp.arg = "true" /\ resp.status = 200
    /\ \E s \in signedUp : Carries(req, s) /\ resp.userId = s._id
    /\ FindLinkByUser(resp.userId) = {[hash |-> resp.data, userId |-> resp.userId]}
    /\ \E u \in UserIds : u # resp.userId /\ FindLinkByUser(u) = {} /\ Of(u, retired) # {}

\* ---- owner references (SpecContent)

OwnersExist == \A c \in ContentModel : \E u \in UserModel : u._id = c.userId

\* C17: in every state the owner of every Content document is the _id of a
\* stored User document, and no step removes or changes a User document.
C17_OwnerIsExistingUser ==
    /\ []OwnersExist
    /\ [][UserModel \subseteq UserModel']_vars

\* C17 witness: a document is stored while only one user has signed up.
C17_Witness ==
    /\ Cardinality(UserModel) = 1
    /\ \E c \in ContentModel : \E u \in UserModel : c.userId = u._id

\* ---- what a resolve exposes (SpecResolve)

\* A request of the given kind that this step parks.
NewlyParked(r, kind) ==
    r.kind = kind /\ CopiesIn(r, inflight') > CopiesIn(r, inflight)

\* A parked request of the given kind that this step resumes.
Resumed(r, kind) ==
    r.kind = kind /\ CopiesIn(r, inflight') < CopiesIn(r, inflight)

\* C18: a resolve goes on for user U only when, at its link lookup, a Link
\* document with the requested code and owner U is stored; the content it then
\* reads is U's, and its answer carries that content and U's username.  A
\* resolve is answered 200 in no other way, so a user with no Link document at
\* the lookup is not exposed.
C18_ResolveNeedsLink ==
    [][/\ \A r \in BagToSet(inflight') :
            NewlyParked(r, "resolve.content") =>
               /\ [hash |-> r.hash, userId |-> r.userId] \in BagToSet(LinkModel)
               /\ r.content = NoContent
       /\ \A r \in BagToSet(inflight') :
            NewlyParked(r, "resolve.user") =>
               /\ \E q \in BagToSet(inflight) :
                     /\ Resumed(q, "resolve.content")
                     /\ q.userId = r.userId /\ q.hash = r.hash
               /\ r.content = {c \in ContentModel : c.userId = r.userId}
       /\ \A r \in BagToSet(inflight) :
            Resumed(r, "resolve.user") =>
               /\ resp'.op = "resolve" /\ resp'.status = 200
               /\ resp'.arg = r.hash
               /\ resp'.data = UsernameOf(r.userId)
               /\ resp'.content = r.content
       /\ (resp'.op = "resolve" /\ resp'.status = 200 /\ resp' # resp) =>
            \E r \in BagToSet(inflight) : Resumed(r, "resolve.user")
       /\ (resp'.op = "resolve" /\ resp'.status # 200) => resp'.content = NoContent]_vars

\* C18 witness: a resolve was answered with one user's documents while
\* another user, who has no Link document, has documents stored too.
C18_Witness ==
    /\ resp.op = "resolve" /\ resp.status = 200 /\ resp.content # {}
    /\ \E u \in UserIds :
          /\ FindLinkByUser(u) = {}
          /\ \E c \in ContentModel : c.userId = u
          /\ \A c \in resp.content : c.userId # u

\* ---- deletes of one document racing each other (SpecContent)

\* The ids the store has handed out to Content documents so far.
IssuedContentIds == {ContentObjectId(n) : n \in 1..contentSeq}

\* C19: each delete request is one deleteOne on the store, so requests that
\* run concurrently take effect one after another.  A delete by the owner of
\* a stored document answers 200 and removes that document and nothing else;
\* a delete naming an id that is not stored for the requester answers 404 (400
\* for a malformed id) and removes nothing; and an id once handed out is never
\* given to a later document, so of all the deletes of one document exactly
\* the first answers 200.
C19_OneDeleteWins ==
    /\ [](\A c \in ContentModel :
             /\ c._id \in IssuedContentIds
             /\ \A d \in ContentModel : d._id = c._id => d = c)
    /\ [][/\ resp'.op \in DeleteOps =>
               \A a \in signedUp : Carries(req', a) =>
                  LET mine == {c \in ContentModel : c._id = resp'.arg /\ c.userId = a._id}
                  IN  IF mine # {}
                      THEN /\ resp'.status = 200
                           /\ Cardinality(mine) = 1
                           /\ ContentModel' = ContentModel \ mine
                      ELSE /\ resp'.status = IF IsObjectIdFormat(resp'.arg) THEN 404 ELSE 400
                           /\ ContentModel' = ContentModel
          /\ \A c \in ContentModel' \ ContentModel : c._id \notin IssuedContentIds
          /\ IssuedContentIds \subseteq IssuedContentIds']_vars

\* C19 witness: the only user created a document, deleted it, and a further
\* delete of the same id by that user was answered 404.
C19_Witness ==
    /\ resp.op \in DeleteOps /\ resp.status = 404
    /\ Cardinality(UserModel) = 1
    /\ \E u \in UserModel : resp.userId = u._id
    /\ resp.arg \in IssuedContentIds
    /\ \A c \in ContentModel : c._id # resp.arg

\* ---- handlers as terminal boundaries (SpecFailure)

Statuses == {200, 400, 401, 403, 404, 409, 500}

\* This step receives a request and answers it.
AnsweredAtOnce ==
    /\ req' # Continued
    /\ UNCHANGED inflight
    /\ resp'.status \in Statuses

\* This step receives a request and parks it at its first await, unanswered.
ParkedUnanswered ==
    /\ req' # Continued
    /\ \E kind \in {"share.create", "resolve.content"}, userId \in UserIds, hash \in ShareLinkInputs \cup {""} :
          inflight' = inflight (+) SetToBag({Parked(kind, userId, hash, NoContent)})
    /\ UNCHANGED resp
    /\ StoreUnchanged

\* This step moves a parked resolve from its second await to its third,
\* unanswered.
Advanced ==
    /\ req' = Continued
    /\ \E r \in BagToSet(inflight), q \in BagToSet(inflight') :
          /\ r.kind = "resolve.content" /\ q.kind = "resolve.user"
          /\ q.userId = r.userId /\ q.hash = r.hash
          /\ inflight' = (inflight (-) SetToBag({r})) (+) SetToBag({q})
    /\ UNCHANGED resp
    /\ StoreUnchanged

\* This step ends the parked request r with its answer.
Finished(r) ==
    /\ req' = Continued
    /\ BagIn(r, inflight)
    /\ inflight' = inflight (-) SetToBag({r})
    /\ resp'.status \in Statuses
    /\ IF r.kind = "share.create"
       THEN resp'.op = "share" /\ resp'.userId = r.userId
       ELSE resp'.op = "resolve" /\ resp'.arg = r.hash
    /\ r.kind = "resolve.content" => resp'.status = 500

OneRegisteredReached == OneRegistered /\ ContentModel = {} /\ contentSeq = 0

ContentOps == {"addContent", "listContent", "deleteContentParam", "deleteContentBody"}

\* C21: a User document, once stored, stays as it is; UserModel changes only
\* by a successful signup adding one document; ContentModel changes only in a
\* step that answers a content create or delete; LinkModel changes only in a
\* step that answers a share request; a step of a share or resolve request
\* (received, parked or continued) leaves ContentModel and UserModel as they
\* are, and a step that answers a content request leaves LinkModel and
\* UserModel as they are.
C21_OwnCollectionOnly ==
    [][/\ UserModel \subseteq UserModel'
       /\ UserModel' # UserModel =>
             /\ resp'.op = "signup" /\ resp'.status = 200
             /\ Cardinality(UserModel') = Cardinality(UserModel) + 1
             /\ UNCHANGED <<ContentModel, LinkModel, contentSeq>>
       /\ ContentModel' # ContentModel =>
             /\ resp'.op \in {"addContent"} \cup DeleteOps
             /\ \E s \in signedUp : Carries(req', s)
             /\ UNCHANGED <<UserModel, LinkModel, userSeq, inflight>>
       /\ LinkModel' # LinkModel =>
             /\ resp'.op = "share"
             /\ UNCHANGED <<UserModel, ContentModel, userSeq, contentSeq>>
       /\ (resp'.op \in {"share", "resolve"} \/ req' = Continued \/ inflight' # inflight) =>
             UNCHANGED <<UserModel, ContentModel, userSeq, contentSeq>>
       /\ resp'.op \in ContentOps =>
             UNCHANGED <<UserModel, LinkModel, userSeq>>]_vars

\* C21 witness: with a second user signed up meanwhile and a link stored, a
\* resolve was answered with the documents of the link's owner, which are all
\* still stored.
C21_Witness ==
    /\ req = Continued
    /\ resp.op = "resolve" /\ resp.status = 200 /\ resp.content # {}
    /\ resp.content \subseteq ContentModel
    /\ Cardinality(UserModel) = 2
    /\ LinkModel # EmptyBag

====
